---- MODULE Spec2Model ----
(***************************************************************************)
(* Model of src/main.py: the POST /summarize handler, the text extractor   *)
(* extract_text_from_file and the upstream client summarize_text.          *)
(*                                                                         *)
(* A Python str is a sequence of one-character strings; a fixed message    *)
(* fragment of an error detail is one multi-character element.  None is a  *)
(* record with present = FALSE.                                            *)
(***************************************************************************)
EXTENDS Integers, Sequences, FiniteSets, TLC

VARIABLES pc, prompt, file, input_text, payload, reply, response,
          extractCalls, upstreamCalls, warnings

vars == <<pc, prompt, file, input_text, payload, reply, response,
          extractCalls, upstreamCalls, warnings>>

----------------------------------------------------------------------------
(* Bounds of the model *)

MaxLen == 2          \* longest short text (prompt, .txt content)
MaxOver == 1         \* how far beyond a program limit the long inputs go
MaxParas == 2        \* most paragraphs of a short .docx document
MaxShortPages == 2   \* most pages of a short .pdf document
MaxChoices == 2      \* most choices of an upstream response

(* Program constants *)

MAX_INPUT_LENGTH == 5000
max_pages == 50
MaxFileSize == 5 * 1024 * 1024

----------------------------------------------------------------------------
(* Python str operations *)

Chars == {" ", "a"}

IsSpace(c) == c \in {" ", "\n", "\t"}

SeqsUpTo(S, n) == UNION {[1..k -> S] : k \in 0..n}

\* str.strip(): drop leading and trailing whitespace
Strip(s) ==
  LET keep == {i \in 1..Len(s) : ~IsSpace(s[i])}
  IN  IF keep = {} THEN <<>>
      ELSE SubSeq(s, CHOOSE i \in keep : \A j \in keep : i <= j,
                     CHOOSE i \in keep : \A j \in keep : i >= j)

LowerChar(c) ==
  CASE c = "T" -> "t" [] c = "X" -> "x" [] c = "D" -> "d" [] c = "O" -> "o"
    [] c = "C" -> "c" [] c = "P" -> "p" [] c = "F" -> "f" [] c = "N" -> "n"
    [] OTHER -> c

\* str.lower()
Lower(s) == [i \in 1..Len(s) |-> LowerChar(s[i])]

\* str.endswith(suffix)
EndsWith(s, suffix) ==
  /\ Len(s) >= Len(suffix)
  /\ SubSeq(s, Len(s) - Len(suffix) + 1, Len(s)) = suffix

\* sep.join(parts)
RECURSIVE Join(_, _)
Join(sep, parts) ==
  IF parts = <<>> THEN <<>>
  ELSE IF Len(parts) = 1 THEN parts[1]
  ELSE parts[1] \o sep \o Join(sep, Tail(parts))

\* the slice s[:n]
Slice(s, n) == SubSeq(s, 1, IF n < Len(s) THEN n ELSE Len(s))

----------------------------------------------------------------------------
(* Exceptions.  http = TRUE is a fastapi HTTPException(status_code, detail); *)
(* any other exception has a class name and a message.                      *)

NoExc == [http |-> FALSE, class |-> "none", status_code |-> 0, detail |-> <<>>]

HTTPException(status_code, detail) ==
  [http |-> TRUE, class |-> "HTTPException", status_code |-> status_code,
   detail |-> detail]

OtherException(class, message) ==
  [http |-> FALSE, class |-> class, status_code |-> 0, detail |-> message]

\* str(e): starlette's HTTPException.__str__ gives "<status_code>: <detail>"
StrExc(e) ==
  IF e.http THEN <<ToString(e.status_code), ": ">> \o e.detail ELSE e.detail

Returned(value, warned) ==
  [ok |-> TRUE, value |-> value, exc |-> NoExc, warned |-> warned]

Raised(exc) == [ok |-> FALSE, value |-> <<>>, exc |-> exc, warned |-> FALSE]

----------------------------------------------------------------------------
(* Uploads.  The bytes of an upload are modelled by what each parser makes *)
(* of them: fmt says which parser accepts them.                            *)

NoPage == [present |-> FALSE, text |-> <<>>]   \* extract_text() gave None
Page(t) == [present |-> TRUE, text |-> t]

TxtBytes(t) == [fmt |-> "utf8", text |-> t, paragraphs |-> <<>>, pages |-> <<>>]
DocxBytes(ps) == [fmt |-> "docx", text |-> <<>>, paragraphs |-> ps, pages |-> <<>>]
PdfBytes(pgs) == [fmt |-> "pdf", text |-> <<>>, paragraphs |-> <<>>, pages |-> pgs]
Garbage == [fmt |-> "garbage", text |-> <<>>, paragraphs |-> <<>>, pages |-> <<>>]

NoFile == [present |-> FALSE, filename |-> <<>>, size |-> 0, content |-> Garbage]
Upload(filename, size, content) ==
  [present |-> TRUE, filename |-> filename, size |-> size, content |-> content]

NoPrompt == [present |-> FALSE, text |-> <<>>]
Prompt(t) == [present |-> TRUE, text |-> t]

DotTxt == <<".", "t", "x", "t">>
DotDocx == <<".", "d", "o", "c", "x">>
DotPdf == <<".", "p", "d", "f">>

----------------------------------------------------------------------------
(* extract_text_from_file *)

\* line 55: the paragraphs with a non-whitespace character, joined by "\n"
RECURSIVE NonBlank(_)
NonBlank(paragraphs) ==
  IF paragraphs = <<>> THEN <<>>
  ELSE IF Strip(Head(paragraphs)) # <<>>
       THEN <<Head(paragraphs)>> \o NonBlank(Tail(paragraphs))
       ELSE NonBlank(Tail(paragraphs))

DocxText(paragraphs) == Join(<<"\n">>, NonBlank(paragraphs))

\* lines 60-64: text += extracted or "" over pdf_reader.pages[:max_pages]
RECURSIVE PagesLoop(_, _)
PagesLoop(text, pages) ==
  IF pages = <<>> THEN text
  ELSE PagesLoop(text \o (IF Head(pages).present THEN Head(pages).text ELSE <<>>),
                 Tail(pages))

\* every page read, the cap forgotten
PdfTextUncapped(pages) == PagesLoop(<<>>, pages)

PdfText(pages) == PagesLoop(<<>>, Slice(pages, max_pages))

\* lines 49-72: the body of the try block
ExtractBody(f) ==
  LET filename == Lower(f.filename)
      content == f.content
  IN  IF EndsWith(filename, DotTxt)
      THEN IF content.fmt = "utf8"
           THEN Returned(content.text, FALSE)
           ELSE Raised(OtherException("UnicodeDecodeError", <<"invalid start byte">>))
      ELSE IF EndsWith(filename, DotDocx)
      THEN IF content.fmt = "docx"
           THEN Returned(DocxText(content.paragraphs), FALSE)
           ELSE Raised(OtherException("BadZipFile", <<"File is not a zip file">>))
      ELSE IF EndsWith(filename, DotPdf)
      THEN IF content.fmt = "pdf"
           THEN Returned(PdfText(content.pages), Len(content.pages) > max_pages)
           ELSE Raised(OtherException("PdfReadError", <<"EOF marker not found">>))
      ELSE Raised(HTTPException(400,
                  <<"Tipe file tidak didukung. Gunakan .txt, .docx, atau .pdf.">>))

\* lines 48-75: try ... except Exception as e: raise HTTPException(500, ...)
extract_text_from_file(f) ==
  LET r == ExtractBody(f)
  IN  IF r.ok THEN r
      ELSE Raised(HTTPException(500,
                  <<"Gagal mengekstrak teks dari file: ">> \o StrExc(r.exc)))

----------------------------------------------------------------------------
(* summarize_text *)

Scaffold == "Buat ringkasan singkat dan jelas dari teks berikut. Fokus pada poin-poin utama dan hindari detail yang tidak relevan:\n\n"

SystemInstruction == "Kamu adalah asisten AI yang membuat ringkasan singkat dan akurat dari teks yang diberikan. Fokus pada poin utama dan hindari detail yang tidak relevan."

NoPayload == [sent |-> FALSE, model |-> "", system |-> "", user |-> <<>>,
              max_tokens |-> 0]

\* a limit that is off by one
TruncateOffByOne(text) ==
  IF Len(text) > MAX_INPUT_LENGTH + 1 THEN Slice(text, MAX_INPUT_LENGTH + 1)
  ELSE text

\* lines 86-88: cut the input to MAX_INPUT_LENGTH characters
Truncate(text) ==
  IF Len(text) > MAX_INPUT_LENGTH THEN Slice(text, MAX_INPUT_LENGTH) ELSE text

\* lines 90-103: the request body; the user message is the scaffold followed
\* by the (truncated) text
BuildPayload(text) ==
  [sent |-> TRUE,
   model |-> "meta-llama/llama-3.1-8b-instruct:free",
   system |-> SystemInstruction,
   user |-> <<Scaffold>> \o Truncate(text),
   max_tokens |-> 500]

(* What comes back from session.post: a connection failure, a timeout, or a *)
(* response with a status and a body.  body says what response.json() makes *)
(* of it: "json" parses, "content_type" raises aiohttp.ContentTypeError (a  *)
(* ClientResponseError), "decode" raises json.JSONDecodeError.             *)

NoContent == [present |-> FALSE, text |-> <<>>]   \* no message.content string
Content(t) == [present |-> TRUE, text |-> t]

NoReply == [kind |-> "none", status |-> 0, body |-> "none",
            has_choices |-> FALSE, choices |-> <<>>]
ConnectionFailed == [NoReply EXCEPT !.kind = "connection_error"]
TimedOut == [NoReply EXCEPT !.kind = "timeout"]
Response(status, body, has_choices, choices) ==
  [kind |-> "response", status |-> status, body |-> body,
   has_choices |-> has_choices, choices |-> choices]

\* every status below 500 taken for a success
IsSuccessStatusLoose(status) == status < 500

\* line 113: response.status != 200 is an error
IsSuccessStatus(status) == status = 200

\* line 117: "choices" not in data or not data["choices"]
MissingChoices(r) == ~r.has_choices \/ r.choices = <<>>

\* lstrip() where strip() is meant
StripLeftOnly(s) ==
  LET keep == {i \in 1..Len(s) : ~IsSpace(s[i])}
  IN  IF keep = {} THEN <<>>
      ELSE SubSeq(s, CHOOSE i \in keep : \A j \in keep : i <= j, Len(s))

FirstContentLeftStripped(choices) == StripLeftOnly(choices[1].text)

\* line 120: data["choices"][0]["message"]["content"].strip()
FirstContent(choices) == Strip(choices[1].text)

\* lines 108-122: the body of the try block, given what session.post gave
SummarizeBody(r) ==
  IF r.kind = "connection_error"
  THEN Raised(OtherException("ClientConnectionError", <<"Cannot connect to host">>))
  ELSE IF r.kind = "timeout"
  THEN Raised(OtherException("TimeoutError", <<>>))
  ELSE IF ~IsSuccessStatus(r.status)
  THEN Raised(HTTPException(500, <<"Gagal menghubungi API: ", ToString(r.status)>>))
  ELSE IF r.body = "content_type"
  THEN Raised(OtherException("ClientResponseError", <<"unexpected mimetype">>))
  ELSE IF r.body = "decode"
  THEN Raised(OtherException("JSONDecodeError", <<"Expecting value">>))
  ELSE IF MissingChoices(r)
  THEN Raised(HTTPException(500,
       <<"API tidak mengembalikan konten. Kemungkinan teks terlalu panjang atau model gagal memproses.">>))
  ELSE IF ~r.choices[1].present
  THEN Raised(OtherException("KeyError", <<"'content'">>))
  ELSE Returned(FirstContent(r.choices), FALSE)

\* lines 106-134: try ... except, the first matching clause wins
summarize_text(r) ==
  LET b == SummarizeBody(r)
  IN  IF b.ok THEN b
      ELSE IF b.exc.class = "ClientConnectionError"
      THEN Raised(HTTPException(500, <<"Gagal menghubungi OpenRouter: Koneksi gagal.">>))
      ELSE IF b.exc.class = "ClientResponseError"
      THEN Raised(HTTPException(500,
                  <<"Gagal menghubungi OpenRouter: ">> \o StrExc(b.exc)))
      ELSE IF b.exc.class = "TimeoutError"
      THEN Raised(HTTPException(500,
                  <<"Permintaan ke OpenRouter timeout setelah 60 detik.">>))
      ELSE Raised(HTTPException(500, <<"Gagal meringkas teks: ">> \o StrExc(b.exc)))

----------------------------------------------------------------------------
(* Responses of POST /summarize *)

NoResponse == [status |-> 0, success |-> FALSE, text |-> <<>>, detail |-> <<>>]

\* line 169: {"success": True, "data": {"text": summary}}
Envelope(summary) ==
  [status |-> 200, success |-> TRUE, text |-> summary, detail |-> <<>>]

\* an HTTPException leaving the handler: the status and {"detail": ...}
ErrorResponse(e) ==
  [status |-> e.status_code, success |-> FALSE, text |-> <<>>, detail |-> e.detail]

----------------------------------------------------------------------------
(* The requests and upstream replies the model draws from *)

\* a text of n characters whose characters depend on their position
LongText(n) ==
  [i \in 1..n |-> IF i % 7 = 0 THEN " " ELSE IF i % 3 = 0 THEN "a" ELSE "b"]

Texts ==
  SeqsUpTo(Chars, MaxLen)
    \cup {LongText(n) : n \in (MAX_INPUT_LENGTH - 1)..(MAX_INPUT_LENGTH + MaxOver)}

Prompts == {NoPrompt} \cup {Prompt(t) : t \in Texts}

Paragraphs == {<<>>, <<" ">>, <<"a">>}

PageValues == {NoPage, Page(<<"a">>), Page(<<" ">>)}

\* a document of n pages: every fourth page has no text, the others differ
LongPdf(n) ==
  [i \in 1..n |-> IF i % 4 = 0 THEN NoPage
                  ELSE IF i > max_pages THEN Page(<<"z">>)
                  ELSE IF i % 2 = 0 THEN Page(<<"a">>) ELSE Page(<<"b", " ">>)]

Contents ==
  {TxtBytes(t) : t \in Texts}
    \cup {DocxBytes(ps) : ps \in SeqsUpTo(Paragraphs, MaxParas)}
    \cup {PdfBytes(pgs) : pgs \in SeqsUpTo(PageValues, MaxShortPages)}
    \cup {PdfBytes(LongPdf(n)) : n \in (max_pages - 1)..(max_pages + MaxOver)}
    \cup {Garbage}

Filenames ==
  { <<"n">> \o DotTxt, <<"N", ".", "T", "X", "T">>, <<"n">> \o DotDocx,
    <<"n">> \o DotPdf, <<"n", ".", "P", "d", "f">>, <<"n", ".", "e", "x", "e">>,
    <<"t", "x", "t">> }

Sizes == {1} \cup (MaxFileSize..(MaxFileSize + MaxOver))

Files ==
  {NoFile} \cup {Upload(n, z, c) : n \in Filenames, z \in Sizes, c \in Contents}

ChoiceValues == {NoContent, Content(<<" ", "a", " ">>), Content(<<"b">>)}

ChoiceLists == SeqsUpTo(ChoiceValues, MaxChoices)

Replies ==
  {ConnectionFailed, TimedOut}
    \cup {Response(200, b, FALSE, <<>>) : b \in {"content_type", "decode", "json"}}
    \cup {Response(200, "json", TRUE, cs) : cs \in ChoiceLists}
    \cup {Response(st, "json", FALSE, <<>>) : st \in {429, 503}}
    \cup {Response(st, "json", TRUE, <<Content(<<"b">>)>>) : st \in {429, 503}}

----------------------------------------------------------------------------
(* The handler of POST /summarize, one request from arrival to response *)

Init ==
  /\ pc = "idle"
  /\ prompt = NoPrompt
  /\ file = NoFile
  /\ input_text = <<>>
  /\ payload = NoPayload
  /\ reply = NoReply
  /\ response = NoResponse
  /\ extractCalls = 0
  /\ upstreamCalls = 0
  /\ warnings = {}

Respond(r) ==
  /\ response' = r
  /\ pc' = "done"

\* lines 136-141: a request arrives with its optional form fields
Receive ==
  /\ pc = "idle"
  /\ \E p \in Prompts, f \in Files :
       /\ prompt' = p
       /\ file' = f
  /\ pc' = "validate"
  /\ UNCHANGED <<input_text, payload, reply, response, extractCalls,
                 upstreamCalls, warnings>>

\* "prompt is not None" where truthiness is meant
HasPromptNotNone == prompt.present

\* truthiness of the form fields: None and "" are falsy, an UploadFile is truthy
HasPrompt == prompt.present /\ prompt.text # <<>>
HasFile == file.present

\* a 50 MB limit where 5 MB is meant
TooLargeFifty(f) == f.size > 50 * 1024 * 1024

\* line 152: file.size > 5 * 1024 * 1024
TooLarge(f) == f.size > MaxFileSize

\* lines 148-154
Validate ==
  /\ pc = "validate"
  /\ IF ~HasPrompt /\ ~HasFile
     THEN Respond(ErrorResponse(HTTPException(400,
            <<"Tidak ada teks atau file yang diunggah.">>)))
     ELSE IF HasFile /\ TooLarge(file)
     THEN Respond(ErrorResponse(HTTPException(400,
            <<"Ukuran file terlalu besar. Maksimum 5MB.">>)))
     ELSE pc' = "obtain" /\ UNCHANGED response
  /\ UNCHANGED <<prompt, file, input_text, payload, reply, extractCalls,
                 upstreamCalls, warnings>>

\* the prompt preferred to the file
InputSourcePromptFirst ==
  IF HasPrompt THEN "prompt" ELSE IF HasFile THEN "file" ELSE "none"

\* lines 157-160: if file: ... elif prompt: ...
InputSource ==
  IF HasFile THEN "file" ELSE IF HasPrompt THEN "prompt" ELSE "none"

\* lines 156-160: the extractor's output if there is a file, else the
\* stripped prompt; an HTTPException of the extractor leaves the handler
ObtainText ==
  /\ pc = "obtain"
  /\ IF InputSource = "file"
     THEN LET r == extract_text_from_file(file)
          IN  /\ extractCalls' = extractCalls + 1
              /\ warnings' = IF r.warned THEN warnings \cup {"pdf_truncated"}
                             ELSE warnings
              /\ IF r.ok
                 THEN /\ input_text' = r.value
                      /\ pc' = "check"
                      /\ UNCHANGED response
                 ELSE /\ Respond(ErrorResponse(r.exc))
                      /\ UNCHANGED input_text
     ELSE /\ input_text' = IF InputSource = "prompt" THEN Strip(prompt.text)
                           ELSE <<>>
          /\ pc' = "check"
          /\ UNCHANGED <<response, extractCalls, warnings>>
  /\ UNCHANGED <<prompt, file, payload, reply, upstreamCalls>>

\* "input_text is None" where truthiness is meant
IsEmptyNever(text) == FALSE

\* line 162: not input_text
IsEmpty(text) == text = <<>>

\* lines 162-164
CheckEmpty ==
  /\ pc = "check"
  /\ IF IsEmpty(input_text)
     THEN Respond(ErrorResponse(HTTPException(400,
            <<"Teks yang diekstrak kosong atau tidak valid.">>)))
     ELSE pc' = "call" /\ UNCHANGED response
  /\ UNCHANGED <<prompt, file, input_text, payload, reply, extractCalls,
                 upstreamCalls, warnings>>

\* line 167 and lines 81-108: summarize_text builds the payload and posts it
SendUpstream ==
  /\ pc = "call"
  /\ payload' = BuildPayload(input_text)
  /\ warnings' = IF Len(input_text) > MAX_INPUT_LENGTH
                 THEN warnings \cup {"input_truncated"} ELSE warnings
  /\ upstreamCalls' = upstreamCalls + 1
  /\ pc' = "awaiting"
  /\ UNCHANGED <<prompt, file, input_text, reply, response, extractCalls>>

\* a failed call sent again
UpstreamReplyRetry ==
  /\ pc = "awaiting"
  /\ \E r \in Replies :
       /\ reply' = r
       /\ LET s == summarize_text(r)
          IN  IF s.ok
              THEN Respond(Envelope(s.value))
              ELSE IF upstreamCalls < 2
              THEN pc' = "call" /\ UNCHANGED response
              ELSE Respond(ErrorResponse(HTTPException(500, StrExc(s.exc))))
  /\ UNCHANGED <<prompt, file, input_text, payload, extractCalls,
                 upstreamCalls, warnings>>

\* lines 109-134 and 168-172: the post completes; a summary is wrapped in the
\* envelope, any exception of summarize_text becomes HTTPException(500, str(e))
UpstreamReply ==
  /\ pc = "awaiting"
  /\ \E r \in Replies :
       /\ reply' = r
       /\ LET s == summarize_text(r)
          IN  IF s.ok
              THEN Respond(Envelope(s.value))
              ELSE Respond(ErrorResponse(HTTPException(500, StrExc(s.exc))))
  /\ UNCHANGED <<prompt, file, input_text, payload, extractCalls,
                 upstreamCalls, warnings>>

Next ==
  \/ Receive
  \/ Validate
  \/ ObtainText
  \/ CheckEmpty
  \/ SendUpstream
  \/ UpstreamReply

Spec == Init /\ [][Next]_vars

----------------------------------------------------------------------------
(* Vocabulary of the properties *)

ClientError(r) == r.status \in 400..499
ServerError(r) == r.status \in 500..599

Min(a, b) == IF a < b THEN a ELSE b

\* part occurs in s as a run of consecutive elements
Contains(s, part) ==
  \E i \in 0..(Len(s) - Len(part)) : SubSeq(s, i + 1, i + Len(part)) = part

\* the lower-cased name ends in none of the three supported suffixes
Unsupported(f) ==
  LET n == Lower(f.filename)
  IN  \A suffix \in {DotTxt, DotDocx, DotPdf} : ~EndsWith(n, suffix)

\* t is s without its leading and trailing whitespace
IsTrimOf(t, s) ==
  IF \A k \in 1..Len(s) : IsSpace(s[k])
  THEN t = <<>>
  ELSE \E i \in 1..Len(s) :
         LET j == i + Len(t) - 1
         IN  /\ ~IsSpace(s[i])
             /\ \A k \in 1..(i - 1) : IsSpace(s[k])
             /\ i <= j /\ j <= Len(s)
             /\ ~IsSpace(s[j])
             /\ \A k \in (j + 1)..Len(s) : IsSpace(s[k])
             /\ t = SubSeq(s, i, j)

PageString(p) == IF p.present THEN p.text ELSE <<>>

\* the number of characters of the first k pages
RECURSIVE CharsBefore(_, _)
CharsBefore(pages, k) ==
  IF k = 0 THEN 0 ELSE CharsBefore(pages, k - 1) + Len(PageString(pages[k]))

\* text is pages 1..m laid end to end, nothing between and nothing after
IsPagesInOrder(text, pages, m) ==
  /\ Len(text) = CharsBefore(pages, m)
  /\ \A i \in 1..m :
       SubSeq(text, CharsBefore(pages, i - 1) + 1, CharsBefore(pages, i))
         = PageString(pages[i])

\* the request got past validation and the extractor was run on its file
Extracted == file.present /\ extractCalls = 1

\* the request got as far as having an input text: the extractor returned
\* one, or there is no file and the prompt was stripped
TextObtained ==
  \/ Extracted /\ extract_text_from_file(file).ok
  \/ ~file.present /\ prompt.present /\ prompt.text # <<>>

\* the upstream reply is one of the failures of the client
UpstreamFailure ==
  \/ reply.kind \in {"connection_error", "timeout"}
  \/ /\ reply.kind = "response"
     /\ \/ reply.status # 200
        \/ reply.body # "json"
        \/ ~reply.has_choices
        \/ reply.choices = <<>>

----------------------------------------------------------------------------
(* The properties *)

\* C1: the extractor, run on a file whose lower-cased name ends in none of
\* .txt, .docx, .pdf, ends the request in a 4xx response, never a 5xx one.
C1_UnsupportedSuffixIsClientError ==
  (pc = "done" /\ Extracted /\ Unsupported(file)) => ClientError(response)

\* C2: a request with neither a prompt nor a file never gets past validation,
\* never starts the extractor or the upstream call, and ends in a 400 response.
C2_NoInputRejected ==
  (pc # "idle" /\ ~file.present /\ (~prompt.present \/ prompt.text = <<>>))
    => /\ pc \in {"validate", "done"}
       /\ extractCalls = 0
       /\ upstreamCalls = 0
       /\ pc = "done" => response.status = 400 /\ ~response.success

C2_Witness ==
  /\ pc = "done"
  /\ ~file.present
  /\ prompt.present /\ prompt.text = <<>>
  /\ response.status = 400

\* C3: a request whose file is larger than 5 MiB never gets past validation,
\* whatever its prompt and filename: the extractor is never run on it and it
\* ends in a 400 response.
C3_OversizedRejectedBeforeExtraction ==
  (pc # "idle" /\ file.present /\ file.size > 5 * 1024 * 1024)
    => /\ pc \in {"validate", "done"}
       /\ extractCalls = 0
       /\ upstreamCalls = 0
       /\ pc = "done" => response.status = 400 /\ ~response.success

C3_Witness ==
  /\ pc = "done"
  /\ file.present /\ file.size > 5 * 1024 * 1024
  /\ EndsWith(file.filename, DotPdf)
  /\ prompt.present /\ prompt.text # <<>>
  /\ response.status = 400
  /\ extractCalls = 0

\* C4: the upstream call is only ever made with a non-empty input text, and a
\* request whose obtained text (the extractor's output, or the stripped prompt)
\* is empty ends in a 400 response with no upstream call.
C4_UpstreamTextNonEmpty ==
  /\ (upstreamCalls > 0 \/ pc \in {"call", "awaiting"}) => Len(input_text) > 0
  /\ payload.sent => Len(payload.user) > 1
  /\ (pc = "done" /\ input_text = <<>> /\ TextObtained)
       => response.status = 400 /\ upstreamCalls = 0 /\ ~payload.sent

C4_Witness ==
  /\ pc = "done"
  /\ Extracted
  /\ file.content.fmt = "docx" /\ Len(file.content.paragraphs) > 0
  /\ input_text = <<>>
  /\ response.status = 400
  /\ upstreamCalls = 0

\* C5: the text in the user message sent upstream is the first
\* min(len(text), 5000) characters of the input text, after the scaffold.
C5_SentTextIsPrefix ==
  payload.sent
    => LET sent == Tail(payload.user)
           n == Min(Len(input_text), 5000)
       IN  /\ Head(payload.user) = Scaffold
           /\ Len(sent) = n
           /\ \A i \in 1..n : sent[i] = input_text[i]

C5_Witness ==
  /\ payload.sent
  /\ Len(input_text) > 5000
  /\ Len(payload.user) = 5001

\* C6: a non-200 upstream response ends the request in a 5xx response whose
\* detail carries the upstream status code, and a 200 response whose body has
\* no choices, or an empty list of them, ends it in a 5xx response; neither
\* gives the success envelope.
C6_UpstreamErrorsAreServerErrors ==
  (pc = "done" /\ reply.kind = "response")
    => /\ reply.status # 200
            => /\ ServerError(response)
               /\ ~response.success
               /\ Contains(response.detail,
                           <<"Gagal menghubungi API: ", ToString(reply.status)>>)
       /\ (reply.status = 200 /\ reply.body = "json"
             /\ (~reply.has_choices \/ reply.choices = <<>>))
            => ServerError(response) /\ ~response.success

C6_Witness ==
  /\ pc = "done"
  /\ reply.kind = "response"
  /\ reply.status = 429
  /\ reply.has_choices /\ reply.choices # <<>>
  /\ response.status = 500

C8_NoRetry ==
  /\ upstreamCalls <= 1
  /\ pc = "awaiting" => upstreamCalls = 1 /\ reply.kind = "none"
  /\ reply.kind # "none" => pc = "done" /\ upstreamCalls = 1
  /\ (reply.kind # "none" /\ UpstreamFailure)
       => ServerError(response) /\ ~response.success

C8_Witness ==
  /\ pc = "done"
  /\ reply.kind = "timeout"
  /\ upstreamCalls = 1
  /\ response.status = 500

\* C9: the text extracted from a .pdf of n pages is the text of pages
\* 1..min(n, 50) in order with nothing between them, a page without text
\* counting as the empty string; more than 50 pages is flagged, not an error.
C9_PdfFirstFiftyPages ==
  (Extracted /\ EndsWith(Lower(file.filename), DotPdf) /\ file.content.fmt = "pdf")
    => LET pages == file.content.pages
       IN  /\ IsPagesInOrder(input_text, pages, Min(Len(pages), 50))
           /\ ("pdf_truncated" \in warnings) <=> (Len(pages) > 50)
           /\ pc = "done" => (upstreamCalls = 1 \/ response.status = 400)

C9_Witness ==
  /\ Extracted
  /\ EndsWith(Lower(file.filename), DotPdf)
  /\ file.content.fmt = "pdf"
  /\ Len(file.content.pages) > 50
  /\ ~file.content.pages[4].present
  /\ "pdf_truncated" \in warnings
  /\ pc = "awaiting"

\* C10: with a file the input text is the extractor's output as it is and the
\* prompt is not used, an empty output being rejected; without a file the
\* input text is the prompt without its leading and trailing whitespace.
C10_OneSourceOfText ==
  pc \in {"check", "call", "awaiting"}
    => IF file.present
       THEN /\ Extracted
            /\ input_text = extract_text_from_file(file).value
            /\ file.content.fmt = "utf8" => input_text = file.content.text
            /\ payload.sent => input_text # <<>>
       ELSE /\ extractCalls = 0
            /\ prompt.present
            /\ IsTrimOf(input_text, prompt.text)

C10_Witness ==
  /\ pc = "check"
  /\ file.present
  /\ file.content.fmt = "utf8"
  /\ input_text = <<" ", "a">>
  /\ prompt.present /\ prompt.text = <<"a", "a">>

====
